---- MODULE Spec2Model ----
(***************************************************************************)
(* CoinHealth: the dashboard's two-stage scrape (runFullScraper), the      *)
(* simulated listing and follower endpoints, the in-memory result store    *)
(* behind /api/followers, the dashboard's parseFollowers, and the          *)
(* ScraperControl widget with POST /api/scraper.                           *)
(*                                                                         *)
(* Time is counted in units of 100 ms.  Market capitalisations are         *)
(* counted in units of 10^9.  The fields symbol, price, image and          *)
(* last_updated are copied or stamped by the code without ever being read; *)
(* the field name stands for them.                                         *)
(***************************************************************************)
EXTENDS Integers, Sequences, FiniteSets, TLC

\* ---------------------------------------------------------------- bounds --
MaxRuns == 2
MaxCoins == 2
MaxChars == 3
MaxClicks == 3
MaxChunks == 2

RunIds == 1..MaxRuns

\* --------------------------------------------------------------- values --
Null == "null"
NoTimer == -1

\* setTimeout delays of runFullScraper
TwitterStartDelay == 30
ResetDelay == 50

\* simulated browser delays of processCryptoData
OpenDelay == 5
NavigateDelay == 12
LoadDelay == 8
SelectorDelay == 4
RateLimitDelay == 10
VisitDelay == OpenDelay + NavigateDelay + LoadDelay + SelectorDelay

\* fallback tiers of processCryptoData
CapTier1 == 100
CapTier2 == 50
CapTier3 == 10

NoTwitter == "No Twitter"

actualTwitterFollowers ==
  [u \in { "https://x.com/bitcoin", "https://x.com/ethereum", "https://x.com/Tether_to",
           "https://x.com/BNBCHAIN", "https://x.com/solana", "https://x.com/Ripple",
           "https://x.com/dogecoin", "https://x.com/Cardano", "https://x.com/avax",
           "https://x.com/chainlink" } |->
     CASE u = "https://x.com/bitcoin" -> "5.2M"
       [] u = "https://x.com/ethereum" -> "3.1M"
       [] u = "https://x.com/Tether_to" -> "1.8M"
       [] u = "https://x.com/BNBCHAIN" -> "2.4M"
       [] u = "https://x.com/solana" -> "1.9M"
       [] u = "https://x.com/Ripple" -> "3.5M"
       [] u = "https://x.com/dogecoin" -> "2.8M"
       [] u = "https://x.com/Cardano" -> "1.2M"
       [] u = "https://x.com/avax" -> "890K"
       [] u = "https://x.com/chainlink" -> "1.1M"]

\* A merged record as the follower endpoints exchange it.
Merged(name, handle, url, followers, cap, rank) ==
  [coin_name |-> name, twitter_handle |-> handle, twitter_url |-> url,
   followers |-> followers, market_cap |-> cap, rank |-> rank]

sampleData ==
  << Merged("Bitcoin", "bitcoin", "https://x.com/bitcoin", "5.2M", 1280, 1),
     Merged("Ethereum", "ethereum", "https://x.com/ethereum", "3.1M", 425, 2),
     Merged("Tether USDt", "Tether_to", "https://x.com/Tether_to", "1.8M", 125, 3),
     Merged("BNB", "BNBCHAIN", "https://x.com/BNBCHAIN", "2.4M", 98, 4),
     Merged("Solana", "solana", "https://x.com/solana", "1.9M", 89, 5),
     Merged("XRP", "Ripple", "https://x.com/Ripple", "3.5M", 78, 6),
     Merged("Dogecoin", "dogecoin", "https://x.com/dogecoin", "2.8M", 58, 7),
     Merged("Cardano", "Cardano", "https://x.com/Cardano", "1.2M", 47, 8) >>

\* A listing record as scrape-coingecko emits it and scrape-twitter reads it.
Coin(rank, name, handle, url, cap) ==
  [rank |-> rank, name |-> name, twitter_handle |-> handle, twitter_url |-> url,
   market_cap |-> cap]

defaultCryptoData ==
  << Coin(1, "Bitcoin", "bitcoin", "https://x.com/bitcoin", 1280),
     Coin(2, "Ethereum", "ethereum", "https://x.com/ethereum", 425) >>

\* ------------------------------------------------- the listing source --
\* What the listing page can show in one row: the coin's name, the handle
\* found on its detail page (Null when the page has no profile link) and its
\* market capitalisation.  The endpoint as written holds ten fixed rows, each
\* with a handle whose URL is a key of actualTwitterFollowers (Bitcoin is one
\* of them); the other two rows are rows a listing page can show, and take
\* the endpoints through their branches for a coin without a profile link
\* and for a profile that is not in the lookup table.
SourceRows ==
  { [name |-> "Bitcoin", twitter_handle |-> "bitcoin", market_cap |-> 1280],
    [name |-> "Polkadot", twitter_handle |-> "Polkadot", market_cap |-> 120],
    [name |-> "Wrapped Bitcoin", twitter_handle |-> Null, market_cap |-> 12] }

\* coinGeckoData: up to MaxCoins rows in displayed order, which defines rank.
coinGeckoData ==
  UNION { [1..n -> SourceRows] : n \in 0..MaxCoins }

\* ------------------------------------------------- scrape-coingecko --
\* POST /api/scrape-coingecko: one listing record per row, the profile URL
\* built from the handle, and the list of the URLs found.
ListingRecord(row, rank) ==
  IF row.twitter_handle # Null
    THEN Coin(rank, row.name, row.twitter_handle,
              "https://x.com/" \o row.twitter_handle, row.market_cap)
    ELSE Coin(rank, row.name, Null, Null, row.market_cap)

RECURSIVE UrlsOf(_)
UrlsOf(coins) ==
  IF coins = << >> THEN << >>
  ELSE IF Head(coins).twitter_url # Null
         THEN << Head(coins).twitter_url >> \o UrlsOf(Tail(coins))
         ELSE UrlsOf(Tail(coins))

ScrapeCoingecko(rows) ==
  LET coinData == [i \in 1..Len(rows) |-> ListingRecord(rows[i], i)]
  IN  [coinData |-> coinData, twitterUrls |-> UrlsOf(coinData)]

\* --------------------------------------------------- scrape-twitter --
\* The values Math.random can give the generated fallback count: two of
\* them per tier.
Fallback(marketCap) ==
  IF marketCap > CapTier1 THEN { "2.0M", "3.1M" }
  ELSE IF marketCap > CapTier2 THEN { "1.0M", "3.0M" }
  ELSE IF marketCap > CapTier3 THEN { "500K", "1400K" }
  ELSE { "100K", "600K" }

\* The follower value processCryptoData gives a coin that has a handle.
FollowersOf(coin) ==
  IF coin.twitter_url \in DOMAIN actualTwitterFollowers
    THEN { actualTwitterFollowers[coin.twitter_url] }
    ELSE Fallback(coin.market_cap)

HasTwitter(coin) == coin.twitter_url # Null /\ coin.twitter_handle # Null

WithTwitter(coin, followers) ==
  Merged(coin.name, coin.twitter_handle, coin.twitter_url, followers,
         coin.market_cap, coin.rank)

WithoutTwitter(coin) ==
  Merged(coin.name, Null, Null, NoTwitter, coin.market_cap, coin.rank)

\* The list POST /api/scrape-twitter hands to processCryptoData.
TwitterInput(body) ==
  IF Len(body.twitterUrls) = 0 THEN defaultCryptoData ELSE body.cryptoData

\* ------------------------------------------------------ /api/followers --
\* GET: the scraped set when it has records, the sample set otherwise.
GetFollowers(store) == IF Len(store) > 0 THEN store ELSE sampleData

\* POST: bodies a caller can send.  kind "array": data is an array; "other":
\* data is present and is no array; "missing": no data; "invalid": the body
\* is not JSON and request.json() throws.
IngestArrays ==
  { << >>,
    << Merged("Monero", Null, Null, NoTwitter, 3, 1) >>,
    << Merged("Bitcoin", "bitcoin", "https://x.com/bitcoin", "6.0M", 1280, 1),
       Merged("Litecoin", "litecoin", "https://x.com/litecoin", "0", 7, 2) >> }

IngestBodies ==
  { [kind |-> "array", data |-> a] : a \in IngestArrays }
    \cup { [kind |-> k, data |-> << >>] : k \in { "other", "missing", "invalid" } }

\* StoresData without Array.isArray: any data that is present is stored.
StoresDataUnchecked(body) == body.kind \in { "array", "other" }

\* if (body.data && Array.isArray(body.data))
StoresData(body) == body.kind = "array"

\* PostFollowers writing record by record and answering after the first:
\* a prefix of the set is what readers find.
PostFollowersPartial(store, body) ==
  IF body.kind = "invalid"
    THEN [store |-> store, ok |-> FALSE, count |-> -1]
    ELSE LET stored == IF ~StoresData(body) THEN store
                       ELSE IF Len(body.data) > 1 THEN SubSeq(body.data, 1, 1)
                       ELSE body.data
         IN  [store |-> stored, ok |-> TRUE, count |-> Len(stored)]

PostFollowers(store, body) ==
  IF body.kind = "invalid"
    THEN [store |-> store, ok |-> FALSE, count |-> -1]
    ELSE LET stored == IF StoresData(body) THEN body.data ELSE store
         IN  [store |-> stored, ok |-> TRUE, count |-> Len(stored)]

\* ------------------------------------------------------ parseFollowers --
\* A followers value is a sequence of characters.  A number is NaN or
\* mant * 10^exp, written with a mant that does not end in 0 (and 0 as
\* 0 * 10^0), so that equal numbers are equal records.
Digits == { "0", "1", "2", "3", "4", "5", "6", "7", "8", "9" }

DigitValue(c) ==
  CASE c = "0" -> 0 [] c = "1" -> 1 [] c = "2" -> 2 [] c = "3" -> 3 [] c = "4" -> 4
    [] c = "5" -> 5 [] c = "6" -> 6 [] c = "7" -> 7 [] c = "8" -> 8 [] c = "9" -> 9

NaN == [nan |-> TRUE, mant |-> 0, exp |-> 0]

RECURSIVE Number(_, _)
Number(mant, exp) ==
  IF mant = 0 THEN [nan |-> FALSE, mant |-> 0, exp |-> 0]
  ELSE IF mant % 10 = 0 THEN Number(mant \div 10, exp + 1)
  ELSE [nan |-> FALSE, mant |-> mant, exp |-> exp]

Times(num, exp) == IF num.nan THEN NaN ELSE Number(num.mant, num.exp + exp)

\* followers.replace(/[,]/g, "")
NotComma(c) == c # ","
RemoveCommas(chars) == SelectSeq(chars, NotComma)

\* followers.includes(c)
Includes(chars, c) == \E i \in 1..Len(chars) : chars[i] = c

\* The number of digits chars has in a row from position i on.
RECURSIVE DigitRun(_, _)
DigitRun(chars, i) ==
  IF i <= Len(chars) /\ chars[i] \in Digits THEN 1 + DigitRun(chars, i + 1) ELSE 0

RECURSIVE DecimalValue(_)
DecimalValue(digits) ==
  IF digits = << >> THEN 0
  ELSE 10 * DecimalValue(SubSeq(digits, 1, Len(digits) - 1))
         + DigitValue(digits[Len(digits)])

\* Number.parseFloat for text without sign, exponent or leading blank: the
\* longest prefix that reads digits, digits.digits, digits. or .digits, and
\* NaN when the text starts with none of them.
ParseFloat(chars) ==
  LET int == DigitRun(chars, 1)
      dot == int + 1 <= Len(chars) /\ chars[int + 1] = "."
      frac == IF dot THEN DigitRun(chars, int + 2) ELSE 0
  IN  IF int = 0 /\ frac = 0 THEN NaN
      ELSE Number(DecimalValue(SubSeq(chars, 1, int)
                                 \o SubSeq(chars, int + 2, int + 1 + frac)),
                  0 - frac)

parseFollowers(followers) ==
  IF followers = << >> \/ followers = << "0" >> THEN Number(0, 0)
  ELSE LET num == ParseFloat(RemoveCommas(followers))
       IN  IF Includes(followers, "M") \/ Includes(followers, "m")
             THEN Times(num, 6)
           ELSE IF Includes(followers, "K") \/ Includes(followers, "k")
             THEN Times(num, 3)
           ELSE num

\* The followers values the dashboard is given to sort: every text of up to
\* MaxChars characters of Alphabet, and the values the endpoints and the
\* sample set carry ("1.2M", "890K", "No Twitter"), a grouped integer and a
\* value in billions.  GET /api/followers serves whatever array was posted,
\* so any text can arrive.
Alphabet == { "0", "1", "5", ",", ".", "K", "m", "B", "N" }

DisplayedValues ==
  UNION { [1..n -> Alphabet] : n \in 0..MaxChars }
    \cup { << "1", ".", "2", "M" >>,
           << "8", "9", "0", "K" >>,
           << "1", "2", ",", "3", "4", "5" >>,
           << "1", ".", "5", "B" >>,
           << "N", "o", " ", "T", "w", "i", "t", "t", "e", "r" >> }

\* --------------------------------------------------------------- state --
VARIABLES
  scraping,           \* page.tsx: the flag that disables "Get Real Data"
  scrapingStep,       \* page.tsx: idle | coingecko | twitter | complete
  scrapingStatus,     \* page.tsx: the status message shown
  cryptoData,         \* page.tsx: the records the dashboard last fetched
  runs,               \* one entry per invocation of runFullScraper
  handler,            \* the scrape-twitter request of each invocation
  scrapedCryptoData,  \* /api/followers: the records stored in memory
  ingestResponse,     \* the last answer of POST /api/followers to a caller
  everStored,         \* history: POST /api/followers has stored a set
  shown,              \* page.tsx: a followers value handed to parseFollowers
  sortKey,            \* page.tsx: what parseFollowers returned for it
  isRunning,          \* ScraperControl: the flag that disables "Run Scraper"
  status,             \* ScraperControl: idle | running | success | error
  lastRun,            \* ScraperControl: << >>, or << the click that last succeeded >>
  output,             \* ScraperControl: the text shown under the button
  scraper,            \* the POST /api/scraper request of ScraperControl
  clicks              \* history: how often runScraper has been invoked

vars == << scraping, scrapingStep, scrapingStatus, cryptoData, runs, handler,
           scrapedCryptoData, ingestResponse, everStored, shown, sortKey,
           isRunning, status, lastRun, output, scraper, clicks >>

MsgStart == "Starting CoinGecko scraper..."
MsgListed == "CoinGecko: Found Twitter accounts"
MsgListingFailed == "CoinGecko scraping failed"
MsgError == "Error"
MsgTwitterStart == "Starting Twitter follower scraper..."
MsgScraped == "Twitter: Successfully scraped"
MsgTwitterFailed == "Twitter scraping failed"
MsgComplete == "Scraping complete! Data updated."

\* An invocation of runFullScraper: where its chain of awaits stands (pc),
\* what the listing request returned, what the resolution request returned,
\* and its two timers (time left, NoTimer when not armed).
\*   unused    not invoked yet
\*   listing   awaiting POST /api/scrape-coingecko
\*   gap       the 3000 ms timer is armed
\*   resolving awaiting POST /api/scrape-twitter
\*   storing   awaiting POST /api/followers
\*   refresh   awaiting fetchData
\*   done      nothing left to run but, possibly, the 5000 ms timer
\* History kept for the properties: before, what GET /api/followers served
\* when the invocation started; foreign, whether another writer has stored a
\* set since; posted, whether its own set was stored, and stored, that set.
NoRun ==
  [pc |-> "unused", outcome |-> "none", coinData |-> << >>, twitterUrls |-> << >>,
   data |-> << >>, t3 |-> NoTimer, t5 |-> NoTimer,
   before |-> << >>, foreign |-> FALSE, posted |-> FALSE, stored |-> << >>]

\* A scrape-twitter request: none | sent | loop | visit | pace | responded | closed
NoHandler ==
  [phase |-> "none", cryptoData |-> << >>, idx |-> 0, scrapedData |-> << >>,
   wait |-> NoTimer, lookups |-> << >>]

\* A POST /api/scraper request: none | sent | spawned | answered, what the
\* child process has written so far, and the answer's JSON.
NoResult == [success |-> FALSE, output |-> << >>, error |-> << >>]
NoScraper ==
  [phase |-> "none", output |-> << >>, errorOutput |-> << >>, result |-> NoResult]

\* The dashboard, the endpoints and the ScraperControl widget as they are
\* once the page is mounted and the server is up.
InitPage ==
  /\ scraping = FALSE
  /\ scrapingStep = "idle"
  /\ scrapingStatus = ""
  /\ cryptoData = << >>
  /\ runs = [r \in RunIds |-> NoRun]
  /\ handler = [r \in RunIds |-> NoHandler]
  /\ scrapedCryptoData = << >>
  /\ ingestResponse = [ok |-> TRUE, count |-> 0]
  /\ everStored = FALSE
  /\ isRunning = FALSE
  /\ status = "idle"
  /\ lastRun = << >>
  /\ output = << >>
  /\ scraper = NoScraper
  /\ clicks = 0

Init ==
  /\ InitPage
  /\ shown = << >>
  /\ sortKey = << >>

Dashboard == << scraping, scrapingStep, scrapingStatus, cryptoData >>
Store == << scrapedCryptoData, ingestResponse, everStored >>
Sorting == << shown, sortKey >>
Control == << isRunning, status, lastRun, output, scraper, clicks >>
Elsewhere == << Sorting, Control >>

\* History: a writer other than invocation r has stored a set.
ForeignWrite(r) ==
  [q \in RunIds |->
     IF q # r /\ runs[q].pc # "unused" THEN [runs[q] EXCEPT !.foreign = TRUE]
     ELSE runs[q]]

\* ------------------------------------------------------ runFullScraper --
\* The click on "Get Real Data": the button is disabled while scraping.
RunFullScraper(r) ==
  /\ ~scraping
  /\ runs[r].pc = "unused"
  /\ \A q \in RunIds : q < r => runs[q].pc # "unused"
  /\ scraping' = TRUE
  /\ scrapingStep' = "coingecko"
  /\ scrapingStatus' = MsgStart
  /\ runs' = [runs EXCEPT ![r].pc = "listing",
                          ![r].before = GetFollowers(scrapedCryptoData)]
  /\ UNCHANGED << Elsewhere, cryptoData, handler, Store >>

\* The listing request answers OK: the status is set, the 3000 ms timer and
\* (finally) the 5000 ms timer are armed.
CoinGeckoOk(r) ==
  /\ runs[r].pc = "listing"
  /\ \E rows \in coinGeckoData :
       LET coinGeckoResult == ScrapeCoingecko(rows)
       IN  runs' = [runs EXCEPT ![r].pc = "gap",
                                ![r].coinData = coinGeckoResult.coinData,
                                ![r].twitterUrls = coinGeckoResult.twitterUrls,
                                ![r].t3 = TwitterStartDelay,
                                ![r].t5 = ResetDelay]
  /\ scrapingStatus' = MsgListed
  /\ scrapingStep' = "twitter"
  /\ UNCHANGED << Elsewhere, scraping, cryptoData, handler, Store >>

\* CoinGeckoNotOk without the else: the failed listing still arms the
\* 3000 ms timer.
CoinGeckoNotOkStartsTwitter(r) ==
  /\ runs[r].pc = "listing"
  /\ scrapingStatus' = MsgListingFailed
  /\ scrapingStep' = "idle"
  /\ runs' = [runs EXCEPT ![r].pc = "gap", ![r].outcome = "listing failed",
                          ![r].t3 = TwitterStartDelay, ![r].t5 = ResetDelay]
  /\ UNCHANGED << Elsewhere, scraping, cryptoData, handler, Store >>

\* The listing request answers with a status that is not OK.
CoinGeckoNotOk(r) ==
  /\ runs[r].pc = "listing"
  /\ scrapingStatus' = MsgListingFailed
  /\ scrapingStep' = "idle"
  /\ runs' = [runs EXCEPT ![r].pc = "done", ![r].outcome = "listing failed",
                          ![r].t5 = ResetDelay]
  /\ UNCHANGED << Elsewhere, scraping, cryptoData, handler, Store >>

\* CoinGeckoThrows without the finally block: the 5000 ms timer is not armed.
CoinGeckoThrowsNoFinally(r) ==
  /\ runs[r].pc = "listing"
  /\ scrapingStatus' = MsgError
  /\ scrapingStep' = "idle"
  /\ runs' = [runs EXCEPT ![r].pc = "done", ![r].outcome = "listing threw"]
  /\ UNCHANGED << Elsewhere, scraping, cryptoData, handler, Store >>

\* The listing request throws (the catch block).
CoinGeckoThrows(r) ==
  /\ runs[r].pc = "listing"
  /\ scrapingStatus' = MsgError
  /\ scrapingStep' = "idle"
  /\ runs' = [runs EXCEPT ![r].pc = "done", ![r].outcome = "listing threw",
                          ![r].t5 = ResetDelay]
  /\ UNCHANGED << Elsewhere, scraping, cryptoData, handler, Store >>

\* The 5000 ms timer of the finally block.
ResetTimer(r) ==
  /\ runs[r].t5 = 0
  /\ scraping' = FALSE
  /\ scrapingStep' = "idle"
  /\ runs' = [runs EXCEPT ![r].t5 = NoTimer]
  /\ UNCHANGED << Elsewhere, scrapingStatus, cryptoData, handler, Store >>

\* The 3000 ms timer: the status is set and the resolution request is sent
\* with the listing's coinData and twitterUrls.
TwitterTimer(r) ==
  /\ runs[r].t3 = 0
  /\ scrapingStatus' = MsgTwitterStart
  /\ runs' = [runs EXCEPT ![r].pc = "resolving", ![r].t3 = NoTimer]
  /\ handler' = [handler EXCEPT ![r].phase = "sent"]
  /\ UNCHANGED << Elsewhere, scraping, scrapingStep, cryptoData, Store >>

\* ------------------------------------------- POST /api/scrape-twitter --
\* The request arrives: the body is read and processCryptoData is entered
\* with the body's cryptoData, or with defaultCryptoData when the body's
\* twitterUrls is empty.
ScrapeTwitterPOST(r) ==
  /\ handler[r].phase = "sent"
  /\ handler' = [handler EXCEPT
       ![r].phase = "loop",
       ![r].cryptoData = TwitterInput([cryptoData |-> runs[r].coinData,
                                       twitterUrls |-> runs[r].twitterUrls]),
       ![r].idx = 1,
       ![r].scrapedData = << >>]
  /\ UNCHANGED << Elsewhere, Dashboard, runs, Store >>

\* NextCoin with a loop that ends at the first coin without a profile.
NextCoinStopsAtNoTwitter(r) ==
  /\ handler[r].phase = "loop"
  /\ LET h == handler[r]
     IN  IF h.idx > Len(h.cryptoData) \/ ~HasTwitter(h.cryptoData[h.idx])
           THEN handler' = [handler EXCEPT ![r].phase = "responded"]
           ELSE handler' = [handler EXCEPT ![r].phase = "visit",
                                           ![r].wait = VisitDelay]
  /\ UNCHANGED << Elsewhere, Dashboard, runs, Store >>

\* processCryptoData, the head of one iteration: a coin with a profile is
\* visited (the simulated browser delays), any other coin is pushed at once
\* with the "No Twitter" marker; past the last coin the response is sent.
NextCoin(r) ==
  /\ handler[r].phase = "loop"
  /\ LET h == handler[r]
     IN  IF h.idx > Len(h.cryptoData)
           THEN handler' = [handler EXCEPT ![r].phase = "responded"]
           ELSE IF HasTwitter(h.cryptoData[h.idx])
             THEN handler' = [handler EXCEPT ![r].phase = "visit",
                                             ![r].wait = VisitDelay]
             ELSE handler' = [handler EXCEPT
                    ![r].scrapedData = Append(@, WithoutTwitter(h.cryptoData[h.idx])),
                    ![r].idx = @ + 1]
  /\ UNCHANGED << Elsewhere, Dashboard, runs, Store >>

\* processCryptoData, the profile page is loaded: the follower value is
\* looked up (or generated), the record is pushed, the pacing delay starts.
ReadFollowers(r) ==
  /\ handler[r].phase = "visit"
  /\ handler[r].wait = 0
  /\ LET coin == handler[r].cryptoData[handler[r].idx]
     IN  \E followers \in FollowersOf(coin) :
           handler' = [handler EXCEPT
             ![r].scrapedData = Append(@, WithTwitter(coin, followers)),
             ![r].lookups = Append(@, coin.twitter_url),
             ![r].phase = "pace",
             ![r].wait = RateLimitDelay]
  /\ UNCHANGED << Elsewhere, Dashboard, runs, Store >>

\* processCryptoData, the pacing delay is over: on to the next coin.
Paced(r) ==
  /\ handler[r].phase = "pace"
  /\ handler[r].wait = 0
  /\ handler' = [handler EXCEPT ![r].phase = "loop", ![r].wait = NoTimer,
                                ![r].idx = @ + 1]
  /\ UNCHANGED << Elsewhere, Dashboard, runs, Store >>

\* ------------------------------- runFullScraper, the delayed callback --
\* The resolution request answers OK: status and step are set and the
\* returned data is sent to POST /api/followers.
TwitterOk(r) ==
  /\ runs[r].pc = "resolving"
  /\ handler[r].phase = "responded"
  /\ scrapingStatus' = MsgScraped
  /\ scrapingStep' = "complete"
  /\ runs' = [runs EXCEPT ![r].pc = "storing", ![r].data = handler[r].scrapedData]
  /\ handler' = [handler EXCEPT ![r].phase = "closed"]
  /\ UNCHANGED << Elsewhere, scraping, cryptoData, Store >>

\* The resolution request answers with a status that is not OK.
TwitterNotOk(r) ==
  /\ runs[r].pc = "resolving"
  /\ scrapingStatus' = MsgTwitterFailed
  /\ scrapingStep' = "idle"
  /\ runs' = [runs EXCEPT ![r].pc = "done", ![r].outcome = "resolution failed"]
  /\ handler' = [handler EXCEPT ![r] = [NoHandler EXCEPT !.phase = "closed"]]
  /\ UNCHANGED << Elsewhere, scraping, cryptoData, Store >>

\* The resolution request throws: nothing catches inside the timer callback.
TwitterThrows(r) ==
  /\ runs[r].pc = "resolving"
  /\ runs' = [runs EXCEPT ![r].pc = "done", ![r].outcome = "resolution threw"]
  /\ handler' = [handler EXCEPT ![r] = [NoHandler EXCEPT !.phase = "closed"]]
  /\ UNCHANGED << Elsewhere, Dashboard, Store >>

\* POST /api/followers handles the run's data.
StoreData(r) ==
  /\ runs[r].pc = "storing"
  /\ LET res == PostFollowers(scrapedCryptoData,
                              [kind |-> "array", data |-> runs[r].data])
     IN  /\ scrapedCryptoData' = res.store
         /\ runs' = [ForeignWrite(r) EXCEPT ![r].pc = "refresh",
                                            ![r].posted = TRUE,
                                            ![r].stored = res.store]
  /\ everStored' = TRUE
  /\ UNCHANGED << Elsewhere, Dashboard, handler, ingestResponse >>

\* The store request answers with a status that is not OK: the callback
\* does not look at the answer.
StoreNotOk(r) ==
  /\ runs[r].pc = "storing"
  /\ runs' = [runs EXCEPT ![r].pc = "refresh"]
  /\ UNCHANGED << Elsewhere, Dashboard, handler, Store >>

\* The store request throws.
StoreThrows(r) ==
  /\ runs[r].pc = "storing"
  /\ runs' = [runs EXCEPT ![r].pc = "done", ![r].outcome = "store threw"]
  /\ UNCHANGED << Elsewhere, Dashboard, handler, Store >>

\* await fetchData() answers OK, then the final status.
RefreshOk(r) ==
  /\ runs[r].pc = "refresh"
  /\ cryptoData' = GetFollowers(scrapedCryptoData)
  /\ scrapingStatus' = MsgComplete
  /\ runs' = [runs EXCEPT ![r].pc = "done", ![r].outcome = "succeeded"]
  /\ UNCHANGED << Elsewhere, scraping, scrapingStep, handler, Store >>

\* await fetchData() fails (it catches and logs), then the final status.
RefreshFails(r) ==
  /\ runs[r].pc = "refresh"
  /\ scrapingStatus' = MsgComplete
  /\ runs' = [runs EXCEPT ![r].pc = "done", ![r].outcome = "succeeded"]
  /\ UNCHANGED << Elsewhere, scraping, scrapingStep, cryptoData, handler, Store >>

\* ----------------------------------------------------- other callers --
\* FetchData with a GET that keeps what it served: the sample set is written
\* into the store on the first read.
FetchDataCaches ==
  /\ cryptoData' = GetFollowers(scrapedCryptoData)
  /\ scrapedCryptoData' = GetFollowers(scrapedCryptoData)
  /\ UNCHANGED << Elsewhere, scraping, scrapingStep, scrapingStatus, runs, handler,
                  ingestResponse, everStored >>

\* fetchData on mount or on "Refresh".
FetchData ==
  /\ cryptoData' = GetFollowers(scrapedCryptoData)
  /\ UNCHANGED << Elsewhere, scraping, scrapingStep, scrapingStatus, runs, handler, Store >>

\* POST /api/followers from a caller other than the dashboard's run.
Ingest(body) ==
  /\ LET res == PostFollowers(scrapedCryptoData, body)
     IN  /\ scrapedCryptoData' = res.store
         /\ ingestResponse' = [ok |-> res.ok, count |-> res.count]
         /\ everStored' = (everStored \/ (res.ok /\ StoresData(body)))
         /\ runs' = IF res.ok /\ StoresData(body) THEN ForeignWrite(0) ELSE runs
  /\ UNCHANGED << Elsewhere, Dashboard, handler >>

\* ---------------------------------------------------------------- time --
Timers ==
  ({ runs[r].t3 : r \in RunIds } \cup { runs[r].t5 : r \in RunIds }
     \cup { handler[r].wait : r \in RunIds }) \ { NoTimer }

Elapse(t, d) == IF t = NoTimer THEN NoTimer ELSE t - d

\* Time passes up to the next timer that is due.
Tick ==
  /\ Timers # { }
  /\ 0 \notin Timers
  /\ LET d == CHOOSE t \in Timers : \A u \in Timers : t <= u
     IN  /\ runs' = [r \in RunIds |->
                       [runs[r] EXCEPT !.t3 = Elapse(@, d), !.t5 = Elapse(@, d)]]
         /\ handler' = [r \in RunIds |-> [handler[r] EXCEPT !.wait = Elapse(@, d)]]
  /\ UNCHANGED << Elsewhere, Dashboard, Store >>

Invocation(r) ==
       \/ RunFullScraper(r)
       \/ CoinGeckoOk(r)
       \/ CoinGeckoNotOk(r)
       \/ CoinGeckoThrows(r)
       \/ TwitterTimer(r)
       \/ ResetTimer(r)
       \/ ScrapeTwitterPOST(r)
       \/ NextCoin(r)
       \/ ReadFollowers(r)
       \/ Paced(r)
       \/ TwitterOk(r)
       \/ TwitterNotOk(r)
       \/ TwitterThrows(r)
       \/ StoreData(r)
       \/ StoreNotOk(r)
       \/ StoreThrows(r)
       \/ RefreshOk(r)
       \/ RefreshFails(r)

\* The dashboard and the endpoints it calls: "Get Real Data" clicked again
\* whenever the button is enabled.
Next ==
  \/ \E r \in RunIds : Invocation(r)
  \/ Tick

Spec == Init /\ [][Next]_vars

\* One invocation of runFullScraper, with the other callers of
\* /api/followers acting at any time.
NextOneRun ==
  \/ Invocation(1)
  \/ Tick
  \/ FetchData
  \/ \E body \in IngestBodies : Ingest(body)

SpecOneRun == Init /\ [][NextOneRun]_vars

\* What an invocation does once it has been started: its requests are
\* answered and its timers fire.
Settle(r) ==
       \/ CoinGeckoOk(r)
       \/ CoinGeckoNotOk(r)
       \/ CoinGeckoThrows(r)
       \/ TwitterTimer(r)
       \/ ResetTimer(r)
       \/ ScrapeTwitterPOST(r)
       \/ NextCoin(r)
       \/ ReadFollowers(r)
       \/ Paced(r)
       \/ TwitterOk(r)
       \/ TwitterNotOk(r)
       \/ TwitterThrows(r)
       \/ StoreData(r)
       \/ StoreNotOk(r)
       \/ StoreThrows(r)
       \/ RefreshOk(r)
       \/ RefreshFails(r)

\* One invocation of runFullScraper on its own.  Every fetch settles (the
\* endpoints answer after their delays, a connection that fails rejects) and
\* every timer that is due fires, so a started invocation keeps taking steps
\* for as long as it has one to take; the click itself may never come.
NextRun ==
  \/ RunFullScraper(1)
  \/ Settle(1)
  \/ Tick

SpecRun == Init /\ [][NextRun]_vars /\ WF_vars(Settle(1) \/ Tick)

\* ------------------------------------------------------ ScraperControl --
\* The click on "Run Scraper": the button is disabled while isRunning.
RunScraper ==
  /\ ~isRunning
  /\ clicks < MaxClicks
  /\ clicks' = clicks + 1
  /\ isRunning' = TRUE
  /\ status' = "running"
  /\ output' = << "Starting scraper..." >>
  /\ scraper' = [NoScraper EXCEPT !.phase = "sent"]
  /\ UNCHANGED << Dashboard, runs, handler, Store, Sorting, lastRun >>

\* POST /api/scraper: the child process is spawned.
ScraperPOST ==
  /\ scraper.phase = "sent"
  /\ scraper' = [scraper EXCEPT !.phase = "spawned"]
  /\ UNCHANGED << Dashboard, runs, handler, Store, Sorting,
                  isRunning, status, lastRun, output, clicks >>

\* POST /api/scraper: spawning throws (the catch block, status 500).
ScraperPOSTThrows ==
  /\ scraper.phase = "sent"
  /\ scraper' = [scraper EXCEPT
       !.phase = "answered",
       !.result = [NoResult EXCEPT !.error = << "Failed to trigger scraper" >>]]
  /\ UNCHANGED << Dashboard, runs, handler, Store, Sorting,
                  isRunning, status, lastRun, output, clicks >>

\* The child process writes to its standard output.
StdoutData ==
  /\ scraper.phase = "spawned"
  /\ Len(scraper.output) < MaxChunks
  /\ scraper' = [scraper EXCEPT !.output = Append(@, "out")]
  /\ UNCHANGED << Dashboard, runs, handler, Store, Sorting,
                  isRunning, status, lastRun, output, clicks >>

\* The child process writes to its standard error.
StderrData ==
  /\ scraper.phase = "spawned"
  /\ Len(scraper.errorOutput) < MaxChunks
  /\ scraper' = [scraper EXCEPT !.errorOutput = Append(@, "err")]
  /\ UNCHANGED << Dashboard, runs, handler, Store, Sorting,
                  isRunning, status, lastRun, output, clicks >>

\* The child process ends with an exit code: 0 answers success with the
\* standard output, any other code answers status 500 with the standard error.
ProcessClose(code) ==
  /\ scraper.phase = "spawned"
  /\ scraper' = [scraper EXCEPT
       !.phase = "answered",
       !.result = IF code = 0
                    THEN [NoResult EXCEPT !.success = TRUE, !.output = scraper.output]
                    ELSE [NoResult EXCEPT !.error = scraper.errorOutput]]
  /\ UNCHANGED << Dashboard, runs, handler, Store, Sorting,
                  isRunning, status, lastRun, output, clicks >>

\* The child process cannot be started (the "error" event, status 500).
ProcessError ==
  /\ scraper.phase = "spawned"
  /\ scraper' = [scraper EXCEPT
       !.phase = "answered",
       !.result = [NoResult EXCEPT !.error = << "spawn python3 ENOENT" >>]]
  /\ UNCHANGED << Dashboard, runs, handler, Store, Sorting,
                  isRunning, status, lastRun, output, clicks >>

\* ScraperThrows without the finally block.
ScraperThrowsStaysRunning ==
  /\ scraper.phase \in { "sent", "spawned", "answered" }
  /\ status' = "error"
  /\ output' = << "Error: Unknown error" >>
  /\ scraper' = NoScraper
  /\ UNCHANGED << Dashboard, runs, handler, Store, Sorting, isRunning, lastRun, clicks >>

\* runScraper, the answer is read: success sets the status, the output (or
\* a default text when it is empty) and lastRun; anything else sets the
\* error status and the error text (or a default text); finally isRunning
\* is cleared.
ScraperAnswered ==
  /\ scraper.phase = "answered"
  /\ IF scraper.result.success
       THEN /\ status' = "success"
            /\ output' = (IF scraper.result.output # << >> THEN scraper.result.output
                          ELSE << "Scraper completed successfully" >>)
            /\ lastRun' = << clicks >>
       ELSE /\ status' = "error"
            /\ output' = (IF scraper.result.error # << >> THEN scraper.result.error
                          ELSE << "Scraper failed" >>)
            /\ lastRun' = lastRun
  /\ isRunning' = FALSE
  /\ scraper' = NoScraper
  /\ UNCHANGED << Dashboard, runs, handler, Store, Sorting, clicks >>

\* runScraper, fetch rejects or the answer is no JSON (the catch block);
\* finally isRunning is cleared.
ScraperThrows ==
  /\ scraper.phase \in { "sent", "spawned", "answered" }
  /\ status' = "error"
  /\ output' = << "Error: Unknown error" >>
  /\ isRunning' = FALSE
  /\ scraper' = NoScraper
  /\ UNCHANGED << Dashboard, runs, handler, Store, Sorting, lastRun, clicks >>

NextControl ==
  \/ RunScraper
  \/ ScraperPOST
  \/ ScraperPOSTThrows
  \/ StdoutData
  \/ StderrData
  \/ \E code \in { 0, 1 } : ProcessClose(code)
  \/ ProcessError
  \/ ScraperAnswered
  \/ ScraperThrows

SpecControl == Init /\ [][NextControl]_vars

\* ----------------------------------------------- sorting by followers --
\* The dashboard holds a record whose followers value is any displayed value.
InitSort ==
  /\ InitPage
  /\ shown \in DisplayedValues
  /\ sortKey = << >>

\* The sort comparator calls parseFollowers on the record's followers value.
SortByFollowers ==
  /\ sortKey = << >>
  /\ sortKey' = << parseFollowers(shown) >>
  /\ UNCHANGED << Dashboard, runs, handler, Store, shown, Control >>

NextSort == SortByFollowers

SpecSort == InitSort /\ [][NextSort]_vars

\* ========================================================== properties ==
Range(f) == { f[x] : x \in DOMAIN f }
Ranks(records) == { records[i].rank : i \in 1..Len(records) }

\* The invocation is in its listing stage, in the 3 s gap, in its resolution
\* stage or in its commit.
InProgress(r) == runs[r].pc \in { "listing", "gap", "resolving", "storing" }

\* The resolution request of invocation r has been answered by
\* processCryptoData; handler[r].scrapedData is the answer's data.
Answered(r) == handler[r].phase \in { "responded", "closed" } /\ handler[r].idx > 0

ListingFailed(r) == runs[r].outcome \in { "listing failed", "listing threw" }

\* C1: at most one run is in progress at any time, and while a run is in its
\* listing or resolution stage the trigger is unavailable.
C1_OneRunAtATime ==
  /\ Cardinality({ r \in RunIds : InProgress(r) }) <= 1
  /\ \A r \in RunIds : runs[r].pc \in { "listing", "resolving" } => scraping

\* C2: a run whose listing stage failed has set a failure message, never
\* sends the resolution request nor the commit, and GET /api/followers
\* serves what it served before the run started (as long as no other writer
\* has stored a set meanwhile).
C2_ListingFailureKeepsSnapshot ==
  \A r \in RunIds :
    ListingFailed(r) =>
      /\ runs[r].pc = "done"
      /\ runs[r].t3 = NoTimer
      /\ handler[r].phase = "none"
      /\ ~runs[r].posted
      /\ scrapingStep = "idle"
      /\ scrapingStatus =
           (IF runs[r].outcome = "listing failed" THEN MsgListingFailed ELSE MsgError)
      /\ ~runs[r].foreign => GetFollowers(scrapedCryptoData) = runs[r].before

\* C2 witness: the listing failed after a set had been stored, the 5000 ms
\* timer has fired, and nobody has written since the run started.
C2_Witness ==
  /\ runs[1].outcome = "listing failed"
  /\ runs[1].t5 = NoTimer
  /\ ~runs[1].foreign
  /\ runs[1].before # sampleData
  /\ ~scraping

\* C3: every listing record without a handle is merged with handle null,
\* URL null and "No Twitter", and no lookup is made for it.
C3_NoHandleNoLookup ==
  \A r \in RunIds :
    Answered(r) =>
      LET coins == runs[r].coinData
          out == handler[r].scrapedData
      IN  /\ \A i \in 1..Len(coins) :
               coins[i].twitter_handle = Null =>
                 /\ i <= Len(out)
                 /\ out[i].rank = coins[i].rank
                 /\ out[i].twitter_handle = Null
                 /\ out[i].twitter_url = Null
                 /\ out[i].followers = NoTwitter
          /\ Range(handler[r].lookups) \subseteq Range(runs[r].twitterUrls)

\* A follower value that reads as a count.
IsCount(f) ==
  f \in Range(actualTwitterFollowers)
         \cup Fallback(CapTier1 + 1) \cup Fallback(CapTier2 + 1)
         \cup Fallback(CapTier3 + 1) \cup Fallback(0)

\* C4: a merged record is resolved (the table's count), unresolved (a handle
\* and no count) or without handle ("No Twitter"); a handle whose profile URL
\* is not in the lookup table never carries a count.
C4_UnresolvedStaysUnresolved ==
  \A r \in RunIds :
    Answered(r) =>
      \A i \in 1..Len(handler[r].scrapedData) :
        LET m == handler[r].scrapedData[i]
        IN  /\ m.twitter_handle = Null <=> m.followers = NoTwitter
            /\ (m.twitter_handle # Null
                  /\ m.twitter_url \in DOMAIN actualTwitterFollowers)
                 => m.followers = actualTwitterFollowers[m.twitter_url]
            /\ (m.twitter_handle # Null
                  /\ m.twitter_url \notin DOMAIN actualTwitterFollowers)
                 => ~IsCount(m.followers)

\* C5: the ranks a successful run has stored are ranks its listing stage
\* produced, none twice.
C5_StoredRanksFromListing ==
  \A r \in RunIds :
    (runs[r].posted /\ runs[r].outcome = "succeeded") =>
      /\ Ranks(runs[r].stored) \subseteq Ranks(runs[r].coinData)
      /\ Cardinality(Ranks(runs[r].stored)) = Len(runs[r].stored)

\* C6: GET /api/followers serves the sample set while nothing has been
\* stored, and the set stored last ever after.
C6_SeedOnlyBeforeFirstStore ==
  GetFollowers(scrapedCryptoData) =
    (IF everStored THEN scrapedCryptoData ELSE sampleData)

\* C7: POST /api/followers replaces the stored set exactly when data is an
\* array, and then answers with the length of that array; a body whose data
\* is missing or is no array leaves the stored set as it was.
C7_IngestStoresOnlyArrays ==
  [][\A body \in IngestBodies :
       Ingest(body) =>
         IF body.kind = "array"
           THEN /\ scrapedCryptoData' = body.data
                /\ ingestResponse'.ok
                /\ ingestResponse'.count = Len(body.data)
           ELSE scrapedCryptoData' = scrapedCryptoData]_vars

\* C7 witness: a caller's array of two records has been stored and counted.
C7_Witness ==
  /\ everStored
  /\ Len(scrapedCryptoData) = 2
  /\ scrapedCryptoData \in IngestArrays
  /\ ingestResponse = [ok |-> TRUE, count |-> 2]

StepOrder(step) ==
  CASE step = "idle" -> 0
    [] step = "coingecko" -> 1
    [] step = "twitter" -> 2
    [] step = "complete" -> 3

\* C8: the resolution request is sent only after the listing answered OK, the
\* set is stored only after the resolution answered OK, and the displayed
\* step only moves forward, returns to idle once no stage of a run is in
\* progress, or starts a new run from idle or complete.
C8_StagesInOrder ==
  [][/\ \A r \in RunIds :
          /\ (handler[r].phase = "none" /\ handler'[r].phase = "sent")
               => (runs[r].pc = "gap" /\ runs[r].outcome = "none")
          /\ (~runs[r].posted /\ runs'[r].posted)
               => (runs[r].pc = "storing" /\ Answered(r))
     /\ scrapingStep' # scrapingStep =>
          \/ /\ StepOrder(scrapingStep') > StepOrder(scrapingStep)
             /\ (scrapingStep' = "coingecko" => scrapingStep = "idle")
          \/ scrapingStep' = "idle" /\ \A r \in RunIds : ~InProgress(r)'
          \/ scrapingStep = "complete" /\ scrapingStep' = "coingecko"]_vars

\* C9: the answer of processCryptoData holds one merged record per record of
\* its input, in order, whatever each lookup gave; the step "complete" and
\* the store request come only after that answer (a run still waiting for
\* its answer never shows "complete" on its own account), and what is stored
\* is the whole answer.
C9_WholeBatch ==
  \A r \in RunIds :
    /\ Answered(r) =>
         /\ Len(handler[r].scrapedData) = Len(handler[r].cryptoData)
         /\ \A i \in 1..Len(handler[r].cryptoData) :
              handler[r].scrapedData[i].rank = handler[r].cryptoData[i].rank
    /\ (runs[r].pc \in { "storing", "refresh" }
          \/ runs[r].outcome \in { "succeeded", "store threw" })
         => (Answered(r) /\ runs[r].data = handler[r].scrapedData)
    /\ runs[r].posted => (Answered(r) /\ runs[r].stored = handler[r].scrapedData)
    /\ (scrapingStep = "complete" /\ runs[r].pc \in { "gap", "resolving" })
         => \E q \in RunIds : q # r /\ Answered(q) /\ handler[q].phase = "closed"

\* C9 witness: a run has stored both records of a list whose first coin has
\* a profile that is not in the lookup table and whose second has none.
C9_Witness ==
  /\ runs[1].posted
  /\ Len(runs[1].coinData) = 2
  /\ Len(runs[1].stored) = 2
  /\ runs[1].stored[1].twitter_url \notin DOMAIN actualTwitterFollowers
  /\ runs[1].stored[1].twitter_handle # Null
  /\ runs[1].stored[2].followers = NoTwitter
  /\ scrapedCryptoData = runs[1].stored

\* C10: the answer of the resolution stage has one record per listing
\* record, in order, with that record's rank, handle and URL; followers is
\* the looked-up count for a record with a handle and "No Twitter" otherwise.
C10_MergePerListingRecord ==
  \A r \in RunIds :
    Answered(r) =>
      LET coins == runs[r].coinData
          out == handler[r].scrapedData
      IN  /\ Len(out) = Len(coins)
          /\ \A i \in 1..Len(coins) :
               i <= Len(out) =>
                 /\ out[i].rank = coins[i].rank
                 /\ out[i].twitter_handle = coins[i].twitter_handle
                 /\ out[i].twitter_url = coins[i].twitter_url
                 /\ coins[i].twitter_handle = Null => out[i].followers = NoTwitter
                 /\ coins[i].twitter_url \in DOMAIN actualTwitterFollowers
                      => out[i].followers = actualTwitterFollowers[coins[i].twitter_url]
                 /\ coins[i].twitter_handle # Null => out[i].followers # NoTwitter

\* A failure message of runFullScraper.
IsFailureMessage(m) == m \in { MsgListingFailed, MsgTwitterFailed, MsgError }

\* The resolution request or the store request of invocation r has faulted:
\* the answer was not OK, or the request threw.
ResolutionOrCommitFaulted(r) ==
  \/ runs[r].outcome \in { "resolution failed", "resolution threw", "store threw" }
  \/ runs[r].pc = "refresh" /\ ~runs[r].posted
  \/ runs[r].outcome = "succeeded" /\ ~runs[r].posted

\* C11: a run whose resolution request or store request faulted shows a
\* failure message, does not show the step "complete", and GET /api/followers
\* serves what it served before the run started (as long as no other writer
\* has stored a set meanwhile).
C11_FaultEndsFailed ==
  \A r \in RunIds :
    ResolutionOrCommitFaulted(r) =>
      /\ IsFailureMessage(scrapingStatus)
      /\ scrapingStep # "complete"
      /\ ~runs[r].foreign => GetFollowers(scrapedCryptoData) = runs[r].before

\* C12: two consecutive profile visits are at least the pacing delay apart,
\* whichever scrape-twitter requests they belong to: when processCryptoData
\* starts a visit, no other request has started one less than RateLimitDelay
\* ago.  (A visit takes VisitDelay, longer than the pacing delay, so a visit
\* started less than RateLimitDelay ago is still under way.)
C12_PacedProfileVisits ==
  [][\A r \in RunIds :
       (handler[r].phase # "visit" /\ handler'[r].phase = "visit") =>
         \A q \in RunIds \ { r } :
           handler'[q].phase = "visit"
             => VisitDelay - handler'[q].wait >= RateLimitDelay]_vars

\* The sets that have been handed to POST /api/followers as a whole, by a
\* caller or by a run.
CommittedSets == IngestArrays \cup { runs[r].data : r \in RunIds }

\* C13: the stored set is always one committed set as a whole, and every
\* read (GET /api/followers now, and the dashboard's last fetch) gives the
\* sample set as a whole or one committed set as a whole, never a part of a
\* set nor records of two sets.
C13_AtomicReplace ==
  /\ scrapedCryptoData \in CommittedSets
  /\ GetFollowers(scrapedCryptoData) \in { sampleData } \cup (CommittedSets \ { << >> })
  /\ cryptoData \in { << >>, sampleData } \cup CommittedSets

\* C13 witness: the dashboard still holds a caller's set of two records, read
\* before the run replaced it by its own set of two records.
C13_Witness ==
  /\ runs[1].pc = "refresh"
  /\ runs[1].posted
  /\ Len(runs[1].data) = 2
  /\ scrapedCryptoData = runs[1].data
  /\ cryptoData \in IngestArrays
  /\ Len(cryptoData) = 2

\* C14: the stored set changes only in a commit: the store request of a run
\* (the set becomes the run's merged set) or a caller's POST /api/followers
\* with an array (the set becomes that array); a read, the listing stage and
\* the resolution stage leave it as it was.
C14_OnlyCommitWrites ==
  [][scrapedCryptoData' # scrapedCryptoData =>
       \/ \E r \in RunIds :
            /\ runs[r].pc = "storing"
            /\ runs'[r].posted
            /\ scrapedCryptoData' = runs[r].data
            /\ UNCHANGED << Dashboard, handler >>
       \/ \E body \in IngestBodies :
            /\ body.kind = "array"
            /\ scrapedCryptoData' = body.data
            /\ ingestResponse' = [ok |-> TRUE, count |-> Len(body.data)]
            /\ UNCHANGED << Dashboard, handler >>]_vars

\* C14 witness: a run went through listing, resolution, commit and refresh
\* with no other writer; the store holds its set and the dashboard read it.
C14_Witness ==
  /\ runs[1].outcome = "succeeded"
  /\ runs[1].posted
  /\ ~runs[1].foreign
  /\ runs[1].before = sampleData
  /\ scrapedCryptoData = runs[1].data
  /\ cryptoData = scrapedCryptoData

\* A plain integer, or an integer with a comma before every group of three
\* digits.
PlainInteger(chars) ==
  /\ chars # << >>
  /\ \A i \in 1..Len(chars) : chars[i] \in Digits \cup { "," }
  /\ Includes(chars, ",") =>
       \A i \in 1..Len(chars) : chars[i] = "," <=> (Len(chars) - i) % 4 = 3
  /\ chars[1] \in Digits

\* The power of ten a suffix stands for.
SuffixScale(c) ==
  CASE c \in { "K", "k" } -> 3
    [] c \in { "M", "m" } -> 6
    [] c \in { "B", "b" } -> 9

\* digits or digits.digits followed by one of K, M, B in either case.
SuffixScaled(chars) ==
  /\ Len(chars) >= 2
  /\ chars[Len(chars)] \in { "K", "k", "M", "m", "B", "b" }
  /\ LET body == SubSeq(chars, 1, Len(chars) - 1)
         int == DigitRun(body, 1)
     IN  /\ int >= 1
         /\ \/ int = Len(body)
            \/ /\ body[int + 1] = "."
               /\ DigitRun(body, int + 2) >= 1
               /\ int + 1 + DigitRun(body, int + 2) = Len(body)

\* The integer a well-formed displayed value stands for.
IntegerEquivalent(chars) ==
  IF PlainInteger(chars) THEN Number(DecimalValue(RemoveCommas(chars)), 0)
  ELSE LET body == SubSeq(chars, 1, Len(chars) - 1)
           int == DigitRun(body, 1)
       IN  Number(DecimalValue(SelectSeq(body, LAMBDA c : c \in Digits)),
                  SuffixScale(chars[Len(chars)]) - (Len(body) - int)
                    + (IF int = Len(body) THEN 0 ELSE 1))

\* C15: parseFollowers gives a plain or comma-grouped integer its value and
\* a value with suffix K, M or B (either case) its value times 10^3, 10^6 or
\* 10^9; for no input, "No Twitter" included, does it give NaN.
C15_ParseFollowers ==
  sortKey # << >> =>
    /\ ~sortKey[1].nan
    /\ (PlainInteger(shown) \/ SuffixScaled(shown))
         => sortKey[1] = IntegerEquivalent(shown)

\* C16: isRunning is true exactly while the request of runScraper is
\* outstanding, and exactly then the status is "running"; a click sets both;
\* when the request settles (success answer, failure answer, thrown error)
\* isRunning is cleared and the status becomes success or error; lastRun
\* changes only when a success answer is read.
C16_RunScraperSettles ==
  /\ [](/\ isRunning <=> scraper.phase # "none"
        /\ isRunning <=> status = "running")
  /\ [][/\ clicks' # clicks => (~isRunning /\ isRunning' /\ status' = "running")
        /\ (isRunning /\ ~isRunning') => status' \in { "success", "error" }
        /\ lastRun' # lastRun =>
             /\ scraper.phase = "answered"
             /\ scraper.result.success
             /\ status' = "success"
             /\ lastRun' = << clicks >>]_vars

\* C16 witness: the first run succeeded, the second failed and has settled;
\* lastRun is still the first run's.
C16_Witness ==
  /\ clicks = 2
  /\ ~isRunning
  /\ status = "error"
  /\ lastRun = << 1 >>
  /\ scraper.phase = "none"

\* C17: while the resolution request or the store request of a run is
\* outstanding, the button is disabled and the step shown is not idle; while
\* the resolution request is outstanding the step shown is "twitter".
C17_StatusReflectsRun ==
  \A r \in RunIds :
    /\ runs[r].pc \in { "resolving", "storing" } => (scraping /\ scrapingStep # "idle")
    /\ runs[r].pc = "resolving" => scrapingStep = "twitter"

\* C18: once a later invocation has started, no step of an earlier
\* invocation's callbacks changes the step or the status message, and none
\* replaces the stored set after the later invocation has stored its own.
C18_LaterRunOwnsStatus ==
  [][\A r, q \in RunIds :
       (r < q /\ runs[q].pc # "unused" /\ runs'[r].pc # runs[r].pc) =>
         /\ UNCHANGED << scrapingStep, scrapingStatus >>
         /\ runs[q].posted => UNCHANGED scrapedCryptoData]_vars

\* C19: while the dashboard shows the step "complete" or the message
\* "Scraping complete! Data updated.", the run's merged set has been stored
\* and (as long as no other writer has stored a set since the run started)
\* the stored set is that set.
C19_SuccessMeansStored ==
  \A r \in RunIds :
    (runs[r].pc # "unused" /\ (scrapingStep = "complete" \/ scrapingStatus = MsgComplete))
      => /\ runs[r].posted
         /\ ~runs[r].foreign => scrapedCryptoData = runs[r].data

\* C20: right after POST /api/followers has taken an array, GET
\* /api/followers serves exactly that array, whatever its length.
C20_RoundTrip ==
  [][\A body \in IngestBodies :
       (body.kind = "array" /\ Ingest(body))
         => GetFollowers(scrapedCryptoData') = body.data]_vars

\* C21: two requests that hand processCryptoData the same list get the same
\* followers value for every record, whether or not the record's profile URL
\* is a key of the lookup table.
C21_SameInputSameFollowers ==
  \A r, q \in RunIds :
    (Answered(r) /\ Answered(q) /\ handler[r].cryptoData = handler[q].cryptoData)
      => \A i \in 1..Len(handler[r].scrapedData) :
           handler[r].scrapedData[i].followers = handler[q].scrapedData[i].followers

\* The invocation has been started and has nothing left to run: its chain of
\* awaits has ended and none of its timers is armed.
Settled(r) ==
  /\ runs[r].pc = "done"
  /\ runs[r].t3 = NoTimer
  /\ runs[r].t5 = NoTimer

\* C22: whenever the button is disabled it is enabled again later; every
\* started invocation settles, whichever way its requests end; once it has
\* settled the button is enabled and the step shown is idle or complete
\* (complete only after the resolution request answered OK); and while every
\* started invocation is settled, nothing but a new click changes the step
\* or the flag.
C22_RunSettles ==
  /\ scraping ~> ~scraping
  /\ \A r \in RunIds : (runs[r].pc # "unused") ~> Settled(r)
  /\ [](\A r \in RunIds :
          (Settled(r) /\ \A q \in RunIds : runs[q].pc # "unused" => Settled(q)) =>
            /\ ~scraping
            /\ scrapingStep \in { "idle", "complete" }
            /\ scrapingStep = "complete"
                 => \E q \in RunIds : runs[q].outcome \in { "succeeded", "store threw" })
  /\ [][((\A r \in RunIds : runs[r].pc # "unused" => Settled(r))
           /\ (\A r \in RunIds : runs'[r].pc = "unused" <=> runs[r].pc = "unused"))
          => UNCHANGED << scraping, scrapingStep >>]_vars

\* C22 witness: a run has gone all the way to the success message, its
\* 5000 ms timer fired long before, and the step shown stays "complete".
C22_Witness ==
  /\ Settled(1)
  /\ runs[1].outcome = "succeeded"
  /\ scrapingStatus = MsgComplete
  /\ scrapingStep = "complete"
  /\ ~scraping

====
